---- MODULE Spec2Model ----
(***************************************************************************)
(* PlaywrightTestReporter (reporter.ts): the per-test record store fed by  *)
(* the runner's events, the run summary built in onEnd, the post-run       *)
(* pipeline (fix suggestions with nested pull requests, bug filing,        *)
(* database publishing, e-mail notification) and the exit code decision.   *)
(***************************************************************************)
EXTENDS Integers, Sequences, FiniteSets, TLC

\* ------------------------------------------------------------------------
\* Bounds of the model
\* ------------------------------------------------------------------------
\* Runner events (onTestEnd and onError together) delivered in one run.
MaxEvents == 2

\* ------------------------------------------------------------------------
\* The runner's tests and results
\* ------------------------------------------------------------------------
NoFile == "undefined"

\* TestCase objects of the run: id, title, parent suite title, location file.
\* Two tests share the title "login" in different suites; the location of one
\* test is not known.
Tests ==
    { [id |-> "id1", title |-> "login",  suite |-> "A", file |-> "a.spec.ts"],
      [id |-> "id2", title |-> "login",  suite |-> "B", file |-> NoFile],
      [id |-> "id3", title |-> "logout", suite |-> "A", file |-> "a.spec.ts"] }

\* TestResult.status
Statuses == {"passed", "failed", "timedOut", "skipped", "interrupted"}

Toggles == {"generateFix", "createBug", "generatePR", "publishToDB", "sendEmail"}

\* Directories, as the path segments below the working directory.
NoDir == <<>>

\* the default of config.outputDir ('./test-results')
DefaultOutputDir == <<"test-results">>

\* a config.outputDir the user sets
UserOutputDir == <<"reports">>

\* the directories of the prompt and fix files:
\* path.join(process.cwd(), 'test-results', 'prompts' | 'fixes')
PromptDir == <<"test-results", "prompts">>

FixesDir == <<"test-results", "fixes">>

\* project.outputDir of the runner's first project that sets one
ProjectOutputDir == <<"pw-output">>

\* path is root or lies below it
IsUnder(path, root) ==
    Len(root) <= Len(path) /\ SubSeq(path, 1, Len(root)) = root

ConfigsWith(dirs) ==
    { toggles @@ [outputDir |-> dir] : toggles \in [Toggles -> BOOLEAN], dir \in dirs }

\* The constructor's config: every channel toggle is a boolean (default
\* false), outputDir is left at its default.
Configs == ConfigsWith({DefaultOutputDir})

\* The constructor's config when the user sets outputDir as well.
ConfigsWithOutputDir == ConfigsWith({UserOutputDir})

VARIABLES
    phase,          \* where the run is: Idle, Collecting, Ending, Finalized
    config,         \* _config (channel toggles)
    testRecords,    \* _testRecords: Map in insertion order, as a sequence
    fileFailures,   \* failures handed to _fileHandler.addFailure, in order
    nonTestErrors,  \* _nonTestErrors
    hasInterruptedTests, \* _hasInterruptedTests
    outputDir,      \* this.outputDir, the directory of the file handler
    probe,          \* input and result of a pure function under check
    registry,       \* ProviderRegistry with the get-provider calls in flight
    tracker,        \* a bug tracker with the createBug call in flight
    exitCode,       \* process.exitCode (-1 while the reporter has not set it)
    events,         \* history: the runner events delivered so far
    summary,        \* onEnd's summary (TestSummary)
    pc,             \* onEnd's position (the await it is at)
    idx,            \* index of the current item of the channel's loop
    providers,      \* ProviderRegistry: the kinds whose instance is cached
    testRunId,      \* _publishToDatabase's testRunId
    connections,    \* the connections the database provider has opened
    pending,        \* the requests onEnd has issued and is waiting for
    ran,            \* history: the stages of onEnd started so far, in order
    trace           \* history: the requests and file writes of the stage
                    \* that is running, in order

vars == <<phase, config, testRecords, fileFailures, nonTestErrors,
          hasInterruptedTests, outputDir, probe, registry, tracker, exitCode,
          events, summary,
          pc, idx, providers, testRunId, connections, pending, ran, trace>>

storeVars == <<testRecords, fileFailures, nonTestErrors, hasInterruptedTests,
               outputDir, probe, registry, tracker, events>>

\* ------------------------------------------------------------------------
\* Helpers over the record store
\* ------------------------------------------------------------------------
\* Map.has(key) / position of the entry with that key (0 when absent).
RecordIndex(records, key) ==
    IF \E i \in 1..Len(records) : records[i].key = key
    THEN CHOOSE i \in 1..Len(records) : records[i].key = key
    ELSE 0

\* The key under which onTestEnd stores a test's record.
RecordKey(test) == test.title

\* TestCaseDetails built on the first attempt of a record.
\* test.outcome() of the runner when the first attempt of a test (expected
\* to pass) has ended with that status: an interrupted or skipped attempt
\* does not count as a run of the test.
OutcomeAtFirstAttempt(status) ==
    CASE status = "passed"                -> "expected"
      [] status \in {"failed", "timedOut"} -> "unexpected"
      [] OTHER                            -> "skipped"

\* TestUtils.outcomeToStatus(outcome)
outcomeToStatus(outcome) ==
    CASE outcome = "expected"   -> "passed"
      [] outcome = "unexpected" -> "failed"
      [] outcome = "flaky"      -> "flaky"
      [] OTHER                  -> "skipped"

\* The TestCaseDetails that onTestEnd builds when it creates the record, at
\* the end of the attempt with status firstStatus.
TestCaseDetailsOf(test, firstStatus) ==
    [testId |-> test.id, testTitle |-> test.title, suiteTitle |-> test.suite,
     testFile |-> test.file,
     status |-> outcomeToStatus(OutcomeAtFirstAttempt(firstStatus))]

\* The argument of _fileHandler.addFailure.
AttemptFailure(test, status) ==
    [testId |-> test.id, testTitle |-> test.title, suiteTitle |-> test.suite,
     testFile |-> test.file, isTimeout |-> (status = "timedOut")]

\* status of the last attempt of a record
FinalStatus(r) == r.attempts[Len(r.attempts)].status

IsFailedStatus(s) == s \in {"failed", "timedOut"}

\* The Failure of a record whose final attempt failed.
FailureOf(r) ==
    [testId |-> r.test.testId, testTitle |-> r.test.testTitle,
     suiteTitle |-> r.test.suiteTitle, testFile |-> r.test.testFile,
     isTimeout |-> (FinalStatus(r) = "timedOut")]

RECURSIVE FailuresOf(_)
FailuresOf(records) ==
    IF records = <<>> THEN <<>>
    ELSE IF IsFailedStatus(FinalStatus(Head(records)))
         THEN <<FailureOf(Head(records))>> \o FailuresOf(Tail(records))
         ELSE FailuresOf(Tail(records))

CountFinal(records, s) ==
    Cardinality({i \in 1..Len(records) : FinalStatus(records[i]) = s})

\* TestUtils.processTestResults: counts of records by final status and the
\* failures of the records whose final attempt is failed or timedOut.
ProcessTestResults(records) ==
    [testCount    |-> Len(records),
     passedCount  |-> CountFinal(records, "passed"),
     skippedCount |-> CountFinal(records, "skipped"),
     failures     |-> FailuresOf(records)]

\* failedCount taken as the number of failures
FailedCount_Failures(testCount, passedCount, skippedCount, failures) ==
    Len(failures)

\* failedCount that forgets the skipped tests
FailedCount_NoSkipped(testCount, passedCount, skippedCount, failures) ==
    testCount - passedCount

\* summary.failedCount
FailedCount(testCount, passedCount, skippedCount, failures) ==
    testCount - passedCount - skippedCount

\* the summary onEnd builds from the processed results
SummaryOf(records) ==
    LET p == ProcessTestResults(records) IN
    [failures     |-> p.failures,
     testCount    |-> p.testCount,
     passedCount  |-> p.passedCount,
     skippedCount |-> p.skippedCount,
     failedCount  |-> FailedCount(p.testCount, p.passedCount, p.skippedCount,
                                  p.failures)]

NoSummary ==
    [failures |-> <<>>, testCount |-> 0, passedCount |-> 0, skippedCount |-> 0,
     failedCount |-> 0]

\* an exit decision that ignores interrupted attempts
HasErrors_NoInterrupted(failures, errors, interrupted) ==
    Len(failures) > 0 \/ Len(errors) > 0

\* onEnd's exit decision
HasErrors(failures, errors, interrupted) ==
    Len(failures) > 0 \/ Len(errors) > 0 \/ interrupted

\* ------------------------------------------------------------------------
\* onEnd: the order of its stages
\* ------------------------------------------------------------------------
\* an onEnd that publishes to the database before it files bugs
StageOrder_DbBeforeBugs ==
    <<"FixSuggestion", "DBPublish", "BugFiling", "Summary", "Notification",
      "LastRun", "Exit">>

\* an onEnd that writes the summary document after all its channels
StageOrder_SummaryAfterChannels ==
    <<"FixSuggestion", "BugFiling", "DBPublish", "Notification", "Summary",
      "LastRun", "Exit">>

\* The stages of onEnd after the summary is built, in program order. The
\* channels are FixSuggestion (pull requests nested per failure), BugFiling,
\* DBPublish and Notification; Summary and LastRun write the JSON documents.
StageOrder ==
    <<"FixSuggestion", "BugFiling", "Summary", "DBPublish", "Notification",
      "LastRun", "Exit">>

Channels == {"FixSuggestion", "BugFiling", "DBPublish", "Notification"}

\* an onEnd that publishes to the database whatever publishToDB is
StageEnabled_AlwaysPublish(stage, cfg, sum) ==
    CASE stage = "FixSuggestion" -> cfg["generateFix"] /\ Len(sum.failures) > 0
      [] stage = "BugFiling"     -> cfg["createBug"] /\ Len(sum.failures) > 0
      [] stage = "Notification"  -> cfg["sendEmail"]
      [] OTHER                   -> TRUE

\* an onEnd that generates fixes also when only generatePR is set
StageEnabled_FixForPR(stage, cfg, sum) ==
    CASE stage = "FixSuggestion" ->
             (cfg["generateFix"] \/ cfg["generatePR"]) /\ Len(sum.failures) > 0
      [] stage = "BugFiling"     -> cfg["createBug"] /\ Len(sum.failures) > 0
      [] stage = "DBPublish"     -> cfg["publishToDB"]
      [] stage = "Notification"  -> cfg["sendEmail"]
      [] OTHER                   -> TRUE

\* The condition under which onEnd runs a stage.
StageEnabled(stage, cfg, sum) ==
    CASE stage = "FixSuggestion" -> cfg["generateFix"] /\ Len(sum.failures) > 0
      [] stage = "BugFiling"     -> cfg["createBug"] /\ Len(sum.failures) > 0
      [] stage = "DBPublish"     -> cfg["publishToDB"]
      [] stage = "Notification"  -> cfg["sendEmail"]
      [] OTHER                   -> TRUE

\* The first await (or synchronous step) of a stage.
StageEntry(stage) ==
    CASE stage = "FixSuggestion" -> "fix_begin"
      [] stage = "BugFiling"     -> "bug_get"
      [] stage = "Summary"       -> "write_summary"
      [] stage = "DBPublish"     -> "db_get"
      [] stage = "Notification"  -> "mail_get"
      [] stage = "LastRun"       -> "last_run"
      [] OTHER                   -> "exit"

\* The first stage at position k or later that onEnd runs.
RECURSIVE FirstStageFrom(_, _, _)
FirstStageFrom(k, cfg, sum) ==
    IF k >= Len(StageOrder) THEN "Exit"
    ELSE IF StageEnabled(StageOrder[k], cfg, sum) THEN StageOrder[k]
    ELSE FirstStageFrom(k + 1, cfg, sum)

StagePos(stage) == CHOOSE k \in 1..Len(StageOrder) : StageOrder[k] = stage

\* a _generateFixSuggestions without the try block of its loop
Caught_NoFixTry(block) ==
    block \in {"PullRequest", "BugItem", "BugFiling", "DBPublish", "Notification"}

\* a _createBugsForFailures without the try block inside its loop
Caught_NoBugItemTry(block) ==
    block \in {"FixItem", "PullRequest", "BugFiling", "DBPublish", "Notification"}

\* a _createBugsForFailures without its try blocks
Caught_NoBugTry(block) ==
    block \in {"FixItem", "PullRequest", "DBPublish", "Notification"}

\* a _publishToDatabase without its try block
Caught_NoDbTry(block) ==
    block \in {"FixItem", "PullRequest", "BugItem", "BugFiling", "Notification"}

\* The try/catch blocks of the reporter: FixItem is the per-failure try of
\* _generateFixSuggestions, PullRequest the try of _generatePullRequest,
\* BugItem and BugFiling the inner and outer try of _createBugsForFailures,
\* DBPublish and Notification the try of their method.
Caught(block) ==
    block \in {"FixItem", "PullRequest", "BugItem", "BugFiling", "DBPublish",
               "Notification"}

\* an onEnd without the early return
NoTestsFound_Never(testCount) == FALSE

\* onEnd returns early when no test was recorded.
NoTestsFound(testCount) == testCount = 0

\* A history entry: a request of channel `ch` to its collaborator (or a file
\* write, or a step of the channel) for the item `item`, with the value of
\* the request (passed or returned) and the way it ended that the properties
\* speak about ("-" for the others).
Call(ch, op, item, arg, res) ==
    [ch |-> ch, op |-> op, item |-> item, arg |-> arg, res |-> res]

Entry(ch, op, item) == Call(ch, op, item, "-", "-")

\* Error messages, as their words.
\* hay contains needle (String.prototype.includes)
Includes(hay, needle) ==
    \E i \in 1..(Len(hay) - Len(needle) + 1) :
        SubSeq(hay, i, i + Len(needle) - 1) = needle

\* The lookups of ProviderRegistry that the channels await.
LookupOps ==
    {"getPRProvider", "getBugTrackerProvider", "getDatabaseProvider",
     "getNotificationProvider"}

\* The message of the error a lookup throws when the registry's
\* configuration has no entry for the provider.
ConfigNotFound(op) ==
    CASE op = "getBugTrackerProvider" ->
             <<"Bug", "tracker", "configuration", "not", "found">>
      [] op = "getDatabaseProvider" ->
             <<"Database", "configuration", "not", "found">>
      [] op = "getNotificationProvider" ->
             <<"Notification", "configuration", "not", "found">>
      [] OTHER ->
             <<"PR", "provider", "configuration", "not", "found">>

\* The message of an error of the provider's factory (the configured type
\* is not supported, or its settings are incomplete).
FactoryError == <<"Unsupported", "provider", "type">>

\* The texts a catch block looks for in the message of the error before it
\* prints "Please configure ... provider in your .env file".
HintNeedles(block) ==
    CASE block = "PullRequest" ->
             { <<"PR", "provider", "configuration", "not", "found">> }
      [] block = "BugFiling" ->
             { <<"Bug", "tracker", "provider", "configuration", "not", "found">> }
      [] block = "DBPublish" ->
             { <<"Database", "provider", "configuration", "not", "found">>,
               <<"Database", "configuration", "not", "found">> }
      [] block = "Notification" ->
             { <<"Notification", "provider", "configuration", "not", "found">> }
      [] OTHER -> {}

\* The entry of a lookup that ended as `out`: "ok", "noConfig" (the
\* registry has no configuration for the provider) or "throw" (the factory
\* throws); the entry carries the message of the error, which is empty for
\* a lookup that returns.
Lookup(ch, op, item, out) ==
    Call(ch, op, item,
         CASE out = "noConfig" -> ConfigNotFound(op)
           [] out = "throw"    -> FactoryError
           [] OTHER            -> <<>>,
         IF out \in {"noConfig", "throw"} THEN "throw" ELSE "ok")

\* The console output of the catch block `block` for the lookup that threw
\* last in tr: the error is logged, and the hint to configure the provider
\* is printed when the message contains a text the block looks for.
CatchLog(block, tr) ==
    LET e      == tr[Len(tr)]
        logged == Append(tr, Entry(e.ch, "logError", e.item))
    IN  IF \E needle \in HintNeedles(block) : Includes(e.arg, needle)
        THEN Append(logged, Entry(e.ch, "hint", e.item))
        ELSE logged

\* The request that onEnd awaits at a label ("-" where it awaits none: the
\* steps that only read and write files, and the end of a stage).
AwaitedOp(label) ==
    CASE label = "ai_get"        -> "getAIProvider"
      [] label = "ai_call"       -> "generateCompletion"
      [] label = "pr_get"        -> "getPRProvider"
      [] label = "pr_branch"     -> "createBranch"
      [] label = "pr_commit"     -> "commitChanges"
      [] label = "pr_create"     -> "createPullRequest"
      [] label = "bug_get"       -> "getBugTrackerProvider"
      [] label = "bug_item"      -> "createBug"
      [] label = "db_get"        -> "getDatabaseProvider"
      [] label = "db_init"       -> "initialize"
      [] label = "db_run"        -> "saveTestRun"
      [] label = "db_result"     -> "saveTestResult"
      [] label = "mail_get"      -> "getNotificationProvider"
      [] label = "mail_summary"  -> "sendTestSummary"
      [] label = "mail_failures" -> "sendTestFailures"
      [] OTHER                   -> "-"

\* a bug filing that requests the bugs of all remaining failures at once
Awaited_AllBugsAtOnce(label, i) ==
    IF label = "bug_item"
    THEN { [op |-> "createBug", idx |-> j] : j \in i..Len(summary.failures) }
    ELSE IF AwaitedOp(label) = "-" THEN {}
    ELSE { [op |-> AwaitedOp(label), idx |-> i] }

\* The requests in flight when onEnd is at the await `label` for item i:
\* every request is awaited where it is made.
Awaited(label, i) ==
    IF AwaitedOp(label) = "-" THEN {}
    ELSE { [op |-> AwaitedOp(label), idx |-> i] }

\* onEnd stays in the pipeline, at the await `label`.
Continue(label, i, tr) ==
    /\ pc' = label
    /\ idx' = i
    /\ trace' = tr
    /\ pending' = Awaited(label, i)
    /\ UNCHANGED <<phase, exitCode, ran>>

\* onEnd starts the first stage from position k that it runs.
EnterFrom(k, cfg, sum) ==
    LET stage == FirstStageFrom(k, cfg, sum) IN
    /\ pc' = StageEntry(stage)
    /\ idx' = 1
    /\ pending' = Awaited(StageEntry(stage), 1)
    /\ ran' = Append(ran, stage)
    /\ trace' = <<>>
    /\ testRunId' = 0

\* The work of a stage is over (its method returns).
Leave(stage, tr) == Continue("stage_end", 0, tr)

\* An exception no try block catches rejects onEnd's promise: nothing after
\* it runs and the exit code is left as it was.
Rejected(tr) ==
    /\ pc' = "rejected"
    /\ phase' = "Finalized"
    /\ idx' = 0
    /\ pending' = {}
    /\ trace' = tr
    /\ UNCHANGED <<exitCode, ran>>

\* a catch block that hands the run back to the collection of events
ThrownIn_BackToCollecting(block, stage, tr) ==
    /\ pc' = "-"
    /\ phase' = "Collecting"
    /\ idx' = 0
    /\ pending' = {}
    /\ trace' = tr
    /\ UNCHANGED <<exitCode, ran>>

\* An exception thrown in a stage whose try block is `block`.
ThrownIn(block, stage, tr) ==
    IF Caught(block) THEN Leave(stage, tr) ELSE Rejected(tr)

\* no pure function is under check
NoProbe == [fn |-> "-", arg |-> <<>>, out |-> "-"]

\* The callers of the registry, and the provider kinds that they ask for.
Callers == {1, 2}

Kinds == {"bugTracker", "database"}

\* a caller that has no get-provider call in flight
IdleCall == [pc |-> "idle", kind |-> "-", result |-> 0]

\* ProviderRegistry as the class is loaded: no configuration, no instance
\* (0 stands for undefined), no call in flight. `created` counts the
\* instances made for a kind since the last reset, `made` numbers all
\* instances.
NoRegistry ==
    [config   |-> FALSE,
     instance |-> [k \in Kinds |-> 0],
     created  |-> [k \in Kinds |-> 0],
     made     |-> 0,
     calls    |-> [c \in Callers |-> IdleCall]]

\* a bug tracker without bugs and without a createBug call in flight
NoTracker ==
    [bugs |-> <<>>, pc |-> "idle", title |-> "-", found |-> 0, result |-> 0]

\* The fields of the reporter after the constructor, for a config of the
\* set cfgs.
ReporterInit(cfgs) ==
    /\ phase = "Idle"
    /\ config \in cfgs
    /\ testRecords = <<>>
    /\ fileFailures = <<>>
    /\ nonTestErrors = <<>>
    /\ hasInterruptedTests = FALSE
    /\ outputDir = config["outputDir"]
    /\ exitCode = -1
    /\ events = <<>>
    /\ summary = NoSummary
    /\ pc = "-"
    /\ idx = 0
    /\ providers = {}
    /\ testRunId = 0
    /\ connections = 0
    /\ pending = {}
    /\ registry = NoRegistry
    /\ tracker = NoTracker
    /\ ran = <<>>
    /\ trace = <<>>

InitWith(cfgs) == ReporterInit(cfgs) /\ probe = NoProbe

Init == InitWith(Configs)

pipeVars == <<summary, pc, idx, providers, testRunId, connections, pending,
              ran, trace>>

\* onBegin: records the start time; the directory of the first project that
\* sets an outputDir (dir, NoDir when no project sets one) replaces
\* this.outputDir and the file handler; the run starts collecting events.
BeginWith(dir) ==
    /\ phase = "Idle"
    /\ phase' = "Collecting"
    /\ outputDir' = IF dir # NoDir THEN dir ELSE outputDir
    /\ UNCHANGED <<config, exitCode, testRecords, fileFailures, nonTestErrors,
                   hasInterruptedTests, probe, registry, tracker, events>>
    /\ UNCHANGED pipeVars

\* onBegin of a run none of whose projects sets an outputDir
onBegin == BeginWith(NoDir)

\* onBegin of a run with a project that sets its outputDir
onBeginProjectDir == BeginWith(ProjectOutputDir)

\* an interrupted flag that follows the last attempt only
InterruptedAfter_LastOnly(flag, status) == status = "interrupted"

\* _hasInterruptedTests after an attempt with that status
InterruptedAfter(flag, status) == flag \/ status = "interrupted"

\* onTestEnd(test, result): look up or create the record stored under the
\* test's title, append the attempt, hand a failing attempt to the file
\* handler, remember an interrupted attempt.
TestEndOf(phases, tests, statuses) ==
    /\ phase \in phases
    /\ Len(events) < MaxEvents
    /\ \E test \in tests, status \in statuses :
          LET key     == RecordKey(test)
              created == IF RecordIndex(testRecords, key) = 0
                         THEN Append(testRecords,
                                     [key |-> key,
                                      test |-> TestCaseDetailsOf(test, status),
                                      attempts |-> <<>>])
                         ELSE testRecords
              i       == RecordIndex(created, key)
          IN  /\ testRecords' =
                    [created EXCEPT ![i].attempts =
                        Append(@, [status |-> status])]
              /\ fileFailures' =
                    IF IsFailedStatus(status)
                    THEN Append(fileFailures, AttemptFailure(test, status))
                    ELSE fileFailures
              /\ hasInterruptedTests' =
                    InterruptedAfter(hasInterruptedTests, status)
              /\ events' = Append(events,
                    [type |-> IF phase = "Finalized" THEN "testEndAfterEnd"
                              ELSE "testEnd",
                     test |-> test.id, status |-> status])
    /\ UNCHANGED <<phase, config, exitCode, nonTestErrors, outputDir, probe,
                   registry, tracker>>
    /\ UNCHANGED pipeVars

\* onTestEnd in one of the phases, for an attempt that ended in any status
TestEndIn(phases) == TestEndOf(phases, Tests, Statuses)

\* onTestEnd while the run is collecting
onTestEnd == TestEndIn({"Collecting"})

\* onTestEnd for an attempt that passed or failed, of a test with a source
\* file or of one without
onTestEndPassedOrFailed ==
    TestEndOf({"Collecting"}, {t \in Tests : t.id \in {"id2", "id3"}},
              {"passed", "failed"})

\* onTestEnd delivered after onEnd has returned: the handler has no guard
onTestEndAfterEnd == TestEndIn({"Finalized"})

\* a logging handler that opens an empty record under the event's id
LoggedOnly_CreatesRecord(type, id) ==
    /\ phase = "Collecting"
    /\ Len(events) < MaxEvents
    /\ events' = Append(events, [type |-> type, test |-> id, status |-> "-"])
    /\ testRecords' =
          IF RecordIndex(testRecords, id) = 0
          THEN Append(testRecords,
                      [key |-> id,
                       test |-> [testId |-> id, testTitle |-> id,
                                 suiteTitle |-> "-", testFile |-> NoFile,
                                 status |-> "skipped"],
                       attempts |-> <<[status |-> "skipped"]>>])
          ELSE testRecords
    /\ UNCHANGED <<phase, config, exitCode, fileFailures, nonTestErrors,
                   hasInterruptedTests, outputDir, probe, registry, tracker>>
    /\ UNCHANGED pipeVars

\* A handler that only logs: the event is delivered, no field changes.
LoggedOnly(type, id) ==
    /\ phase = "Collecting"
    /\ Len(events) < MaxEvents
    /\ events' = Append(events, [type |-> type, test |-> id, status |-> "-"])
    /\ UNCHANGED <<phase, config, exitCode, testRecords, fileFailures,
                   nonTestErrors, hasInterruptedTests, outputDir, probe,
                   registry, tracker>>
    /\ UNCHANGED pipeVars

\* onTestBegin(test, result): logs the start or the retry of the test.
onTestBegin == \E test \in Tests : LoggedOnly("testBegin", test.id)

\* onStepBegin(test, result, step): logs a step of category test.step.
onStepBegin == LoggedOnly("stepBegin", "-")

\* onStepEnd(test, result, step): logs the end or the failure of the step.
onStepEnd == LoggedOnly("stepEnd", "-")

\* onError(error): a setup or teardown error is kept in _nonTestErrors.
onError ==
    /\ phase = "Collecting"
    /\ Len(events) < MaxEvents
    /\ nonTestErrors' = Append(nonTestErrors, "error")
    /\ events' = Append(events,
          [type |-> "error", test |-> "-", status |-> "-"])
    /\ UNCHANGED <<phase, config, exitCode, testRecords, fileFailures,
                   hasInterruptedTests, outputDir, probe, registry, tracker>>
    /\ UNCHANGED pipeVars

\* onEnd, up to its first await: process the records, return at once when
\* there is no test, build the summary and enter the first stage.
onEnd ==
    /\ phase = "Collecting"
    /\ LET sum == SummaryOf(testRecords) IN
       IF NoTestsFound(sum.testCount)
       THEN /\ exitCode' = 1
            /\ phase' = "Finalized"
            /\ UNCHANGED pipeVars
       ELSE /\ summary' = sum
            /\ phase' = "Ending"
            /\ EnterFrom(1, config, sum)
            /\ UNCHANGED <<exitCode, providers, connections>>
    /\ UNCHANGED config
    /\ UNCHANGED storeVars

AtStep(label) == phase = "Ending" /\ pc = label

\* A stage has returned: onEnd starts the next stage that it runs.
StageEnd ==
    /\ AtStep("stage_end")
    /\ EnterFrom(StagePos(ran[Len(ran)]) + 1, config, summary)
    /\ UNCHANGED <<phase, exitCode, config, summary, providers, connections>>
    /\ UNCHANGED storeVars

Failures == summary.failures

\* _generateFixSuggestions goes on with failure i, or is over.
NextFix(i, tr) ==
    IF i > Len(Failures) THEN Leave("FixSuggestion", tr)
    ELSE Continue("fix_begin", i, tr)

\* An exception inside the per-failure try of _generateFixSuggestions.
FixItemThrows(tr) ==
    IF Caught("FixItem") THEN NextFix(idx + 1, tr) ELSE Rejected(tr)

\* An exception inside _generatePullRequest.
PullRequestThrows(tr) ==
    IF Caught("PullRequest") THEN NextFix(idx + 1, tr) ELSE FixItemThrows(tr)

\* _generateFixSuggestions, one failure, up to the AI provider lookup: a
\* failure without test file is skipped; the others are begun ("Generating
\* fix suggestion for"); reading the source may throw (the failure is given
\* up); GenAIUtils.generateFixSuggestion writes the prompt file, or returns
\* null when the file system throws. The source cache is not modelled: a
\* source that is cached is not read again, which only removes the outcome
\* readThrows.
FixBegin ==
    /\ AtStep("fix_begin")
    /\ LET f == Failures[idx] IN
       IF f.testFile = NoFile
       THEN NextFix(idx + 1, trace)
       ELSE \E out \in {"ok", "readThrows", "promptThrows"} :
              LET tr == Append(trace, Entry("FixSuggestion", "begin", f.testId))
              IN CASE out = "readThrows"   -> FixItemThrows(tr)
                   [] out = "promptThrows" -> NextFix(idx + 1, tr)
                   [] OTHER ->
                        Continue("ai_get", idx,
                            Append(tr,
                                Call("FixSuggestion", "writePrompt", f.testId,
                                     PromptDir, "-")))
    /\ UNCHANGED <<config, summary, providers, testRunId, connections>>
    /\ UNCHANGED storeVars

\* generateFixSuggestion after callGenAISuggestion has returned (a suggestion
\* or the error text): write the fix file; with a result and generatePR the
\* pull request is generated.
AfterSuggestion(tr, written) ==
    LET f == Failures[idx] IN
    IF ~written THEN NextFix(idx + 1, tr)
    ELSE LET tr2 == Append(tr, Call("FixSuggestion", "writeFix", f.testId,
                                    FixesDir, "-")) IN
         IF config["generatePR"] THEN Continue("pr_get", idx, tr2)
         ELSE NextFix(idx + 1, tr2)

\* callGenAISuggestion: await ProviderRegistry.getAIProvider(). An exception
\* is caught and turned into an error text that is returned as suggestion.
AIGet ==
    /\ AtStep("ai_get")
    /\ \E out \in (IF "ai" \in providers THEN {"ok"} ELSE {"ok", "throw"}) :
          LET tr == Append(trace,
                      Call("FixSuggestion", "getAIProvider", Failures[idx].testId,
                           "-", out))
          IN IF out = "ok"
             THEN /\ providers' = providers \cup {"ai"}
                  /\ Continue("ai_call", idx, tr)
             ELSE /\ providers' = providers
                  /\ \E written \in BOOLEAN : AfterSuggestion(tr, written)
    /\ UNCHANGED <<config, summary, testRunId, connections>>
    /\ UNCHANGED storeVars

\* callGenAISuggestion: await provider.generateCompletion(messages).
AICall ==
    /\ AtStep("ai_call")
    /\ \E out \in {"ok", "throw"}, written \in BOOLEAN :
          AfterSuggestion(
              Append(trace, Call("FixSuggestion", "generateCompletion",
                                 Failures[idx].testId, "-", out)),
              written)
    /\ UNCHANGED <<config, summary, providers, testRunId, connections>>
    /\ UNCHANGED storeVars

\* _generatePullRequest: await ProviderRegistry.getPRProvider(), then read
\* the fix file.
PRGet ==
    /\ AtStep("pr_get")
    /\ \E out \in (IF "pr" \in providers THEN {"ok", "readThrows"}
                   ELSE {"ok", "noConfig", "throw", "readThrows"}) :
          LET tr == Append(trace,
                      Lookup("PRAutomation", "getPRProvider",
                             Failures[idx].testId,
                             IF out = "readThrows" THEN "ok" ELSE out))
          IN CASE out \in {"noConfig", "throw"} ->
                    /\ providers' = providers
                    /\ PullRequestThrows(CatchLog("PullRequest", tr))
               [] out = "readThrows" ->
                    /\ providers' = providers \cup {"pr"}
                    /\ PullRequestThrows(tr)
               [] OTHER ->
                    /\ providers' = providers \cup {"pr"}
                    /\ Continue("pr_branch", idx, tr)
    /\ UNCHANGED <<config, summary, testRunId, connections>>
    /\ UNCHANGED storeVars

\* a _generatePullRequest that goes on after a request returned nothing
PRRequest_GoesOnWhenFalsy(label, op, arg, nextLabel) ==
    /\ AtStep(label)
    /\ \E out \in {"ok", "falsy", "throw"} :
          LET tr == Append(trace,
                      Call("PRAutomation", op, Failures[idx].testId, arg, out))
          IN CASE out = "throw" -> PullRequestThrows(tr)
               [] OTHER -> IF nextLabel = "-" THEN NextFix(idx + 1, tr)
                           ELSE Continue(nextLabel, idx, tr)
    /\ UNCHANGED <<config, summary, providers, testRunId, connections>>
    /\ UNCHANGED storeVars

\* One request of _generatePullRequest: on a result that is not falsy the
\* next request follows; a falsy result returns; an exception is caught.
PRRequest(label, op, arg, nextLabel) ==
    /\ AtStep(label)
    /\ \E out \in {"ok", "falsy", "throw"} :
          LET tr == Append(trace,
                      Call("PRAutomation", op, Failures[idx].testId, arg, out))
          IN CASE out = "throw" -> PullRequestThrows(tr)
               [] out = "falsy" -> NextFix(idx + 1, tr)
               [] OTHER -> IF nextLabel = "-" THEN NextFix(idx + 1, tr)
                           ELSE Continue(nextLabel, idx, tr)
    /\ UNCHANGED <<config, summary, providers, testRunId, connections>>
    /\ UNCHANGED storeVars

PRCreateBranch == PRRequest("pr_branch", "createBranch", "-", "pr_commit")

PRCommitChanges == PRRequest("pr_commit", "commitChanges", "-", "pr_create")

\* a pull request that is ready for review at once
Draft_False == FALSE

\* the `draft` field of the createPullRequest request
Draft == TRUE

PRCreatePullRequest == PRRequest("pr_create", "createPullRequest", Draft, "-")

\* _createBugsForFailures: await ProviderRegistry.getBugTrackerProvider().
BugGet ==
    /\ AtStep("bug_get")
    /\ \E out \in {"ok", "noConfig", "throw"} :
          LET tr == Append(trace,
                      Lookup("BugFiling", "getBugTrackerProvider", "-", out))
          IN IF out = "ok"
             THEN /\ providers' = providers \cup {"bugTracker"}
                  /\ Continue("bug_item", 1, tr)
             ELSE /\ providers' = providers
                  /\ ThrownIn("BugFiling", "BugFiling",
                              CatchLog("BugFiling", tr))
    /\ UNCHANGED <<config, summary, testRunId, connections>>
    /\ UNCHANGED storeVars

\* the loop of _createBugsForFailures goes on with failure i, or is over
NextBug(i, tr) ==
    IF i > Len(Failures) THEN Leave("BugFiling", tr)
    ELSE Continue("bug_item", i, tr)

\* _createBugsForFailures: await bugTracker.createBug(...) for one failure.
BugCreate ==
    /\ AtStep("bug_item")
    /\ \E out \in {"ok", "falsy", "throw"} :
          LET tr == Append(trace,
                      Call("BugFiling", "createBug", Failures[idx].testId,
                           "-", out))
          IN IF out = "throw" /\ ~Caught("BugItem")
             THEN ThrownIn("BugFiling", "BugFiling", tr)
             ELSE NextBug(idx + 1, tr)
    /\ UNCHANGED <<config, summary, providers, testRunId, connections>>
    /\ UNCHANGED storeVars

\* a FileHandler whose writeSummary lets the error of the write escape
WriteOutcomes_Throws == {"ok", "throw"}

\* The ways FileHandler.writeSummary ends: the file is written, or the write
\* fails and FileHandler deals with the error itself.
WriteOutcomes == {"ok", "failed"}

\* _fileHandler.writeSummary(summary, allTestCases): the call is in no try
\* block of onEnd, an exception of it rejects onEnd.
WriteSummary ==
    /\ AtStep("write_summary")
    /\ \E out \in WriteOutcomes :
          LET tr == Append(trace,
                      Call("Files", "writeSummary", "-", outputDir, out))
          IN IF out = "throw" THEN Rejected(tr) ELSE Leave("Summary", tr)
    /\ UNCHANGED <<config, summary, providers, testRunId, connections>>
    /\ UNCHANGED storeVars

\* The connections that a successful getDatabaseProvider() opens: the
\* registry returns the instance it has, and otherwise
\* DatabaseFactory.createProvider constructs one and awaits its initialize()
\* before it returns it.
FactoryOpens(cached) ==
    IF "database" \in cached THEN 0 ELSE 1

\* The connections that one initialize() of the provider opens: it opens the
\* database and assigns the handle, whether or not it holds one already.
InitializeOpens == 1

\* _publishToDatabase: return when DATABASE_PROVIDER is not set, else await
\* ProviderRegistry.getDatabaseProvider().
DbGet ==
    /\ AtStep("db_get")
    /\ \E out \in {"noEnv", "ok", "noConfig", "throw"} :
          LET tr == Append(trace,
                      Lookup("DBPublish", "getDatabaseProvider", "-", out))
          IN CASE out = "noEnv" ->
                    /\ providers' = providers
                    /\ connections' = connections
                    /\ Leave("DBPublish",
                             Append(trace, Entry("DBPublish", "hint", "-")))
               [] out \in {"noConfig", "throw"} ->
                    /\ providers' = providers
                    /\ connections' = connections
                    /\ ThrownIn("DBPublish", "DBPublish",
                                CatchLog("DBPublish", tr))
               [] OTHER ->
                    /\ providers' = providers \cup {"database"}
                    /\ connections' = connections + FactoryOpens(providers)
                    /\ Continue("db_init", 1, tr)
    /\ UNCHANGED <<config, summary, testRunId>>
    /\ UNCHANGED storeVars

\* _publishToDatabase: await dbProvider.initialize().
DbInitialize ==
    /\ AtStep("db_init")
    /\ \E out \in {"ok", "throw"} :
          LET tr == Append(trace,
                      Call("DBPublish", "initialize", "-", "-", out))
          IN IF out = "ok"
             THEN /\ connections' = connections + InitializeOpens
                  /\ Continue("db_run", 1, tr)
             ELSE /\ connections' = connections
                  /\ ThrownIn("DBPublish", "DBPublish", tr)
    /\ UNCHANGED <<config, summary, providers, testRunId>>
    /\ UNCHANGED storeVars

\* the loop over allTestCases goes on with test case i, or is over
NextResult(i, tr) ==
    IF i > Len(testRecords) THEN Leave("DBPublish", tr)
    ELSE Continue("db_result", i, tr)

\* The ids a database provider may return for the run row it inserted.
RunIds == {1, 2}

\* _publishToDatabase: await dbProvider.saveTestRun(...); the entry holds the
\* id that the provider returned (0 when it threw).
DbSaveTestRun ==
    /\ AtStep("db_run")
    /\ \E out \in {"ok", "throw"}, id \in RunIds :
          IF out = "ok"
          THEN /\ testRunId' = id
               /\ NextResult(1, Append(trace,
                      Call("DBPublish", "saveTestRun", "-", id, out)))
          ELSE /\ testRunId' = testRunId
               /\ ThrownIn("DBPublish", "DBPublish", Append(trace,
                      Call("DBPublish", "saveTestRun", "-", 0, out)))
    /\ UNCHANGED <<config, summary, providers, connections>>
    /\ UNCHANGED storeVars

\* a result row that does not take the id of the run row
TestResultOf_NoRunId(testCase, runId) ==
    [testId |-> testCase.testId, testRunId |-> 0, status |-> testCase.status]

\* The row that _publishToDatabase saves for one test case.
TestResultOf(testCase, runId) ==
    [testId |-> testCase.testId, testRunId |-> runId, status |-> testCase.status]

\* _publishToDatabase: await dbProvider.saveTestResult(...) for one test case.
DbSaveTestResult ==
    /\ AtStep("db_result")
    /\ \E out \in {"ok", "throw"} :
          LET row == TestResultOf(testRecords[idx].test, testRunId)
              tr  == Append(trace,
                      Call("DBPublish", "saveTestResult", row.testId, row, out))
          IN IF out = "ok" THEN NextResult(idx + 1, tr)
             ELSE ThrownIn("DBPublish", "DBPublish", tr)
    /\ UNCHANGED <<config, summary, providers, testRunId, connections>>
    /\ UNCHANGED storeVars

\* process.env.EMAIL_RECIPIENTS: not set, or a string, given by its fields
\* between commas (a string has at least one field: the empty string has the
\* one field "").
RecipientEnvs ==
    { [set |-> FALSE, fields |-> <<>>],
      [set |-> TRUE,  fields |-> <<"">>],
      [set |-> TRUE,  fields |-> <<"qa@example.com">>],
      [set |-> TRUE,  fields |-> <<"dev@example.com", "qa@example.com">>] }

\* EMAIL_RECIPIENTS?.split(',').map(trim) || []: one recipient per field.
ParseRecipients(env) == IF env.set THEN env.fields ELSE <<>>

\* a notification that does not look at the recipient list
NoRecipients_Never(recipients) == FALSE

\* recipients.length === 0
NoRecipients(recipients) == Len(recipients) = 0

\* _sendEmailNotification: return when NOTIFICATION_PROVIDER is not set, else
\* await ProviderRegistry.getNotificationProvider(), then read the recipients
\* and return when there is none.
MailGet ==
    /\ AtStep("mail_get")
    /\ \E out \in {"noEnv", "ok", "noConfig", "throw"}, env \in RecipientEnvs :
          LET tr == Append(trace,
                      Lookup("Notification", "getNotificationProvider", "-",
                             out))
              recipients == ParseRecipients(env)
              tr2 == Append(tr,
                      Call("Notification", "recipients", "-", recipients, "-"))
          IN CASE out = "noEnv" ->
                    /\ providers' = providers
                    /\ Leave("Notification",
                             Append(trace, Entry("Notification", "hint", "-")))
               [] out \in {"noConfig", "throw"} ->
                    /\ providers' = providers
                    /\ ThrownIn("Notification", "Notification",
                                CatchLog("Notification", tr))
               [] OTHER ->
                    /\ providers' = providers \cup {"notification"}
                    /\ IF NoRecipients(recipients)
                       THEN Leave("Notification", tr2)
                       ELSE Continue("mail_summary", 1, tr2)
    /\ UNCHANGED <<config, summary, testRunId, connections>>
    /\ UNCHANGED storeVars

\* a severity that looks at the failures list instead of failedCount
Severity_FailuresOnly(sum) ==
    IF Len(sum.failures) > 0 THEN "Error"
    ELSE IF 5 * sum.skippedCount > sum.testCount THEN "Warning"
    ELSE "Info"

\* The severity of the summary notification: Error when failedCount > 0,
\* else Warning when skippedCount > testCount * 0.2, else Info.
Severity(sum) ==
    IF sum.failedCount > 0 THEN "Error"
    ELSE IF 5 * sum.skippedCount > sum.testCount THEN "Warning"
    ELSE "Info"

\* _sendEmailNotification: await notificationProvider.sendTestSummary(...),
\* with the severity among its options.
MailSummary ==
    /\ AtStep("mail_summary")
    /\ \E out \in {"ok", "failed", "throw"} :
          LET tr == Append(trace,
                      Call("Notification", "sendTestSummary", "-",
                           Severity(summary), out))
          IN CASE out = "throw" -> ThrownIn("Notification", "Notification", tr)
               [] OTHER -> IF Len(Failures) > 0
                           THEN Continue("mail_failures", 1, tr)
                           ELSE Leave("Notification", tr)
    /\ UNCHANGED <<config, summary, providers, testRunId, connections>>
    /\ UNCHANGED storeVars

\* _sendEmailNotification: await notificationProvider.sendTestFailures(...).
MailFailures ==
    /\ AtStep("mail_failures")
    /\ \E out \in {"ok", "failed", "throw"} :
          LET tr == Append(trace,
                      Call("Notification", "sendTestFailures", "-", "-", out))
          IN IF out = "throw" THEN ThrownIn("Notification", "Notification", tr)
             ELSE Leave("Notification", tr)
    /\ UNCHANGED <<config, summary, providers, testRunId, connections>>
    /\ UNCHANGED storeVars

\* The argument hasFailed of saveLastRunStatus: failures.length > 0.
HasFailed(failures, errors, interrupted) == Len(failures) > 0

\* the ids of the records whose test.status is 'failed', in record order
RECURSIVE FailedTestsOf(_)
FailedTestsOf(records) ==
    IF records = <<>> THEN <<>>
    ELSE IF Head(records).test.status = "failed"
         THEN <<Head(records).test.testId>> \o FailedTestsOf(Tail(records))
         ELSE FailedTestsOf(Tail(records))

\* lastRunData of saveLastRunStatus(hasFailed)
LastRunData(records, hasFailed) ==
    [status      |-> IF hasFailed THEN "failed" ELSE "passed",
     failedTests |-> FailedTestsOf(records)]

\* saveLastRunStatus(failures.length > 0): an exception of the write is caught.
SaveLastRunStatus ==
    /\ AtStep("last_run")
    /\ \E out \in {"ok", "throw"} :
          LET data == LastRunData(testRecords,
                          HasFailed(Failures, nonTestErrors,
                                    hasInterruptedTests))
          IN Leave("LastRun",
                   trace \o
                   << Call("Files", "lastRunData", "-", data, "-"),
                      Call("Files", "writeLastRun", "-", outputDir, out) >>)
    /\ UNCHANGED <<config, summary, providers, testRunId, connections>>
    /\ UNCHANGED storeVars

\* The end of onEnd: the exit code.
ExitDecision ==
    /\ AtStep("exit")
    /\ exitCode' = IF HasErrors(Failures, nonTestErrors, hasInterruptedTests)
                   THEN 1 ELSE 0
    /\ phase' = "Finalized"
    /\ pc' = "done"
    /\ pending' = {}
    /\ UNCHANGED <<config, summary, idx, providers, testRunId, connections,
                   ran, trace>>
    /\ UNCHANGED storeVars

Next ==
    \/ onBegin
    \/ onTestBegin
    \/ onStepBegin
    \/ onStepEnd
    \/ onTestEnd
    \/ onError
    \/ onEnd
    \/ StageEnd
    \/ FixBegin
    \/ AIGet
    \/ AICall
    \/ PRGet
    \/ PRCreateBranch
    \/ PRCommitChanges
    \/ PRCreatePullRequest
    \/ BugGet
    \/ BugCreate
    \/ WriteSummary
    \/ DbGet
    \/ DbInitialize
    \/ DbSaveTestRun
    \/ DbSaveTestResult
    \/ MailGet
    \/ MailSummary
    \/ MailFailures
    \/ SaveLastRunStatus
    \/ ExitDecision

Spec == Init /\ [][Next]_vars

\* The steps of onEnd after its call: the continuation of each await and
\* the statements up to the next one.
RunEndStep ==
    \/ StageEnd
    \/ FixBegin
    \/ AIGet
    \/ AICall
    \/ PRGet
    \/ PRCreateBranch
    \/ PRCommitChanges
    \/ PRCreatePullRequest
    \/ BugGet
    \/ BugCreate
    \/ WriteSummary
    \/ DbGet
    \/ DbInitialize
    \/ DbSaveTestRun
    \/ DbSaveTestResult
    \/ MailGet
    \/ MailSummary
    \/ MailFailures
    \/ SaveLastRunStatus
    \/ ExitDecision

\* Where onEnd stands; every step of onEnd moves it.
position == <<phase, pc, idx, ran>>

\* The runs whose end is followed to its last step: attempts that pass or
\* fail, non-test errors, and the steps of onEnd.
NextRunEnd ==
    \/ onBegin
    \/ onTestEndPassedOrFailed
    \/ onError
    \/ onEnd
    \/ RunEndStep

\* The reporter under an event loop that resumes onEnd whenever the request
\* it awaits has returned or thrown.
SpecRunEnd == Init /\ [][NextRunEnd]_vars /\ WF_position(RunEndStep)

\* The reporter with an outputDir set by the user, under a runner that may
\* have a project with its own outputDir and may deliver an attempt-end
\* event after onEnd has returned.
InitOutputDir == InitWith(ConfigsWithOutputDir)

NextAnyRunner ==
    \/ Next
    \/ onBeginProjectDir
    \/ onTestEndAfterEnd

SpecAnyRunner == InitOutputDir /\ [][NextAnyRunner]_vars

\* ------------------------------------------------------------------------
\* The failure classifier
\* ------------------------------------------------------------------------
\* the longest error message, in words
MaxWords == 3

\* The words of an error message: the keywords of the patterns and a word
\* that no pattern looks for.
Words ==
    {"timeout", "network", "request", "selector", "element", "assertion",
     "waiting"}

Messages == UNION { [1..n -> Words] : n \in 0..MaxWords }

WordsOf(msg) == {msg[i] : i \in 1..Len(msg)}

\* a pattern list that looks for selector keywords first
Patterns_SelectorFirst ==
    << [keywords |-> {"selector", "element"}, category |-> "SelectorError"],
       [keywords |-> {"timeout"},             category |-> "TimeoutError"],
       [keywords |-> {"network", "request"},  category |-> "NetworkError"],
       [keywords |-> {"assertion"},           category |-> "AssertionError"] >>

\* The ordered pattern list of the classifier.
Patterns ==
    << [keywords |-> {"timeout"},             category |-> "TimeoutError"],
       [keywords |-> {"network", "request"},  category |-> "NetworkError"],
       [keywords |-> {"selector", "element"}, category |-> "SelectorError"],
       [keywords |-> {"assertion"},           category |-> "AssertionError"] >>

\* the category of the first pattern from position k that matches msg
RECURSIVE FirstMatch(_, _)
FirstMatch(msg, k) ==
    IF k > Len(Patterns) THEN "UnknownError"
    ELSE IF Patterns[k].keywords \cap WordsOf(msg) # {} THEN Patterns[k].category
    ELSE FirstMatch(msg, k + 1)

\* TestUtils.categorizeError(errorMessage)
categorizeError(msg) == FirstMatch(msg, 1)

\* onTestEnd is about to classify the message of a failed attempt
ClassifierInit ==
    /\ ReporterInit(Configs)
    /\ probe \in { [fn |-> "categorizeError", arg |-> msg, out |-> "-"] :
                     msg \in Messages }

\* const errorCategory = TestUtils.categorizeError(errorMessage)
CallCategorizeError ==
    /\ probe.fn = "categorizeError"
    /\ probe.out = "-"
    /\ probe' = [probe EXCEPT !.out = categorizeError(probe.arg)]
    /\ UNCHANGED <<phase, config, testRecords, fileFailures, nonTestErrors,
                   hasInterruptedTests, outputDir, exitCode, events>>
    /\ UNCHANGED <<registry, tracker>>
    /\ UNCHANGED pipeVars

ClassifierNext == CallCategorizeError

ClassifierSpec == ClassifierInit /\ [][ClassifierNext]_vars

\* ------------------------------------------------------------------------
\* The metrics of the summary
\* ------------------------------------------------------------------------
\* the largest number of passed tests of a run
MaxPassed == 3

\* the default of config.maxSlowTestsToShow
DefaultMaxSlowTestsToShow == 3

\* the durations of the passed tests, in seconds
Durations == {1, 2, 3}

\* The durations of the passed tests of a run, in the order in which the
\* tests were first encountered.
PassedDurations == UNION { [1..n -> Durations] : n \in 0..MaxPassed }

RECURSIVE SumOf(_)
SumOf(durations) ==
    IF durations = <<>> THEN 0 ELSE Head(durations) + SumOf(Tail(durations))

\* TestUtils.calculateAverageTime(passedDurations): the mean, as the
\* fraction num / den (0 for no duration).
calculateAverageTime(durations) ==
    [num |-> SumOf(durations),
     den |-> IF durations = <<>> THEN 1 ELSE Len(durations)]

\* a comparison that lets a later test overtake an earlier one of the same
\* duration
StaysBefore_TiesLast(a, b, durations) == durations[a] > durations[b]

\* test a, encountered before test b, stays before b in the ranking
StaysBefore(a, b, durations) == durations[a] >= durations[b]

\* test i put into the ranking of the tests encountered before it
RECURSIVE Ranked(_, _, _)
Ranked(ranking, i, durations) ==
    IF ranking = <<>> THEN <<i>>
    ELSE IF StaysBefore(Head(ranking), i, durations)
         THEN <<Head(ranking)>> \o Ranked(Tail(ranking), i, durations)
         ELSE <<i>> \o ranking

\* the ranking of the first n tests: by duration, longest first
RECURSIVE RankingOf(_, _)
RankingOf(n, durations) ==
    IF n = 0 THEN <<>>
    ELSE Ranked(RankingOf(n - 1, durations), n, durations)

\* TestUtils.findSlowestTests(testRecords, maxSlowTestsToShow): the first k
\* tests of the ranking, each given by its position among the passed tests.
findSlowestTests(durations, k) ==
    LET ranking == RankingOf(Len(durations), durations)
    IN  SubSeq(ranking, 1, IF k < Len(ranking) THEN k ELSE Len(ranking))

\* onEnd is about to compute the metrics of the summary
MetricsInit ==
    /\ ReporterInit(Configs)
    /\ probe \in { [fn |-> "metrics",
                     arg |-> [durations |-> d, k |-> k],
                     out |-> <<>>] :
                     d \in PassedDurations, k \in 1..DefaultMaxSlowTestsToShow }

\* averageTime and slowestTests of the summary
CallMetrics ==
    /\ probe.fn = "metrics"
    /\ probe.out = <<>>
    /\ probe' = [probe EXCEPT !.out =
                    << [averageTime  |-> calculateAverageTime(probe.arg.durations),
                        slowestTests |-> findSlowestTests(probe.arg.durations,
                                                          probe.arg.k)] >>]
    /\ UNCHANGED <<phase, config, testRecords, fileFailures, nonTestErrors,
                   hasInterruptedTests, outputDir, exitCode, events>>
    /\ UNCHANGED <<registry, tracker>>
    /\ UNCHANGED pipeVars

MetricsNext == CallMetrics

MetricsSpec == MetricsInit /\ [][MetricsNext]_vars

\* ------------------------------------------------------------------------
\* ProviderRegistry under overlapping calls
\* ------------------------------------------------------------------------
\* The instances that the factories make in one behaviour.
MaxInstances == 3

CallOf(c) == registry.calls[c]

\* a step of the registry leaves the reporter and the tracker as they are
RegistryOnly ==
    /\ UNCHANGED <<phase, config, testRecords, fileFailures, nonTestErrors,
                   hasInterruptedTests, outputDir, exitCode, events>>
    /\ UNCHANGED <<probe, tracker>>
    /\ UNCHANGED pipeVars

\* get<Kind>Provider() up to its first await: the instance when there is
\* one; else `await this.initialize()` when there is no configuration
\* (initialize assigns the configuration as it is called); else the call
\* of the factory for the configured kind.
GetProvider(c, k) ==
    /\ CallOf(c).pc = "idle"
    /\ registry' =
          IF registry.instance[k] # 0
          THEN [registry EXCEPT !.calls[c] =
                   [pc |-> "done", kind |-> k,
                    result |-> registry.instance[k]]]
          ELSE IF ~registry.config
          THEN [registry EXCEPT !.config = TRUE,
                                !.calls[c] =
                   [pc |-> "init", kind |-> k, result |-> 0]]
          ELSE [registry EXCEPT !.calls[c] =
                   [pc |-> "create", kind |-> k, result |-> 0]]
    /\ RegistryOnly

\* `await this.initialize()` has returned: the getter reads the
\* configuration of its kind and calls the factory.
AwaitInitialize(c) ==
    /\ CallOf(c).pc = "init"
    /\ registry' = [registry EXCEPT !.calls[c].pc = "create"]
    /\ RegistryOnly

\* `this.<kind>Provider = await <Kind>Factory.createProvider(...)` has
\* returned: the new instance is assigned and returned; or the factory has
\* thrown and so does the getter (result 0).
AwaitFactory(c) ==
    /\ CallOf(c).pc = "create"
    /\ \E out \in {"ok", "throw"} :
          LET k  == CallOf(c).kind
              id == registry.made + 1
          IN IF out = "ok"
             THEN /\ registry.made < MaxInstances
                  /\ registry' =
                        [registry EXCEPT !.instance[k] = id,
                                         !.created[k] = @ + 1,
                                         !.made = id,
                                         !.calls[c] =
                            [pc |-> "done", kind |-> k, result |-> id]]
             ELSE registry' =
                        [registry EXCEPT !.calls[c] =
                            [pc |-> "done", kind |-> k, result |-> 0]]
    /\ RegistryOnly

\* the caller has taken the result of its call
ReturnProvider(c) ==
    /\ CallOf(c).pc = "done"
    /\ registry' = [registry EXCEPT !.calls[c] = IdleCall]
    /\ RegistryOnly

\* ProviderRegistry.reset(), called while no get-provider call is in flight
RegistryReset ==
    /\ \A c \in Callers : CallOf(c).pc = "idle"
    /\ registry' = [NoRegistry EXCEPT !.made = registry.made]
    /\ RegistryOnly

RegistryNext ==
    \/ \E c \in Callers, k \in Kinds : GetProvider(c, k)
    \/ \E c \in Callers : AwaitInitialize(c)
    \/ \E c \in Callers : AwaitFactory(c)
    \/ \E c \in Callers : ReturnProvider(c)
    \/ RegistryReset

RegistrySpec == Init /\ [][RegistryNext]_vars

\* ------------------------------------------------------------------------
\* A bug tracker provider
\* ------------------------------------------------------------------------
\* The titles of the bugs that are filed.
Titles == {"login", "logout"}

\* The bugs that the tracker holds in one behaviour.
MaxBugs == 3

\* The indices of the open bugs with that title: what a successful search
\* of findBugs({title}) returns.
OpenWithTitle(bugs, title) ==
    { i \in 1..Len(bugs) : bugs[i].open /\ bugs[i].title = title }

\* findBugs({title}): the open bugs with the title when the search
\* succeeds; its catch block returns the empty list when the search throws.
SearchResult(bugs, title, out) ==
    IF out = "ok" THEN OpenWithTitle(bugs, title) ELSE {}

\* a step of the tracker leaves the reporter and the registry as they are
TrackerOnly ==
    /\ UNCHANGED <<phase, config, testRecords, fileFailures, nonTestErrors,
                   hasInterruptedTests, outputDir, exitCode, events>>
    /\ UNCHANGED <<probe, registry>>
    /\ UNCHANGED pipeVars

\* createBug(bugDetails) is called
TrackerCreateBug(title) ==
    /\ tracker.pc = "idle"
    /\ tracker' = [tracker EXCEPT !.pc = "find", !.title = title,
                                  !.found = 0, !.result = 0]
    /\ TrackerOnly

\* const existingBugs = await this.findBugs({title}); the existing bug is
\* the first of the list, in the order of the search.
TrackerFindBugs ==
    /\ tracker.pc = "find"
    /\ \E out \in {"ok", "throw"} :
          LET existingBugs == SearchResult(tracker.bugs, tracker.title, out)
          IN IF existingBugs # {}
             THEN \E first \in existingBugs :
                     tracker' = [tracker EXCEPT !.pc = "comment",
                                                !.found = first]
             ELSE tracker' = [tracker EXCEPT !.pc = "create"]
    /\ TrackerOnly

\* await this.addComment(existingBug.id, ...); return existingBug. A
\* comment that fails is logged by addComment.
TrackerAddComment ==
    /\ tracker.pc = "comment"
    /\ \E out \in {"ok", "failed"} :
          tracker' =
             [tracker EXCEPT !.pc = "idle",
                             !.result = tracker.found,
                             !.bugs[tracker.found].commented =
                                 IF out = "ok" THEN TRUE ELSE @]
    /\ TrackerOnly

\* the request that creates the issue or work item: the new bug is open
\* and is returned; null (0) is returned when the request throws.
TrackerCreateIssue ==
    /\ tracker.pc = "create"
    /\ \E out \in {"ok", "throw"} :
          IF out = "ok"
          THEN /\ Len(tracker.bugs) < MaxBugs
               /\ tracker' =
                     [tracker EXCEPT !.pc = "idle",
                                     !.result = Len(tracker.bugs) + 1,
                                     !.bugs = Append(@,
                                        [title     |-> tracker.title,
                                         open      |-> TRUE,
                                         commented |-> FALSE])]
          ELSE tracker' = [tracker EXCEPT !.pc = "idle"]
    /\ TrackerOnly

\* closeBug(bugId)
TrackerCloseBug(i) ==
    /\ i \in 1..Len(tracker.bugs)
    /\ tracker.bugs[i].open
    /\ tracker' = [tracker EXCEPT !.bugs[i].open = FALSE]
    /\ TrackerOnly

TrackerNext ==
    \/ \E title \in Titles : TrackerCreateBug(title)
    \/ TrackerFindBugs
    \/ TrackerAddComment
    \/ TrackerCreateIssue
    \/ \E i \in 1..MaxBugs : TrackerCloseBug(i)

TrackerSpec == Init /\ [][TrackerNext]_vars

\* ------------------------------------------------------------------------
\* Properties
\* ------------------------------------------------------------------------
Range(seq) == {seq[i] : i \in 1..Len(seq)}

TestOf(id) == CHOOSE t \in Tests : t.id = id

\* the statuses of the attempt-end events delivered for test `id`, in order
RECURSIVE DeliveredFor(_, _)
DeliveredFor(evs, id) ==
    IF evs = <<>> THEN <<>>
    ELSE IF Head(evs).type = "testEnd" /\ Head(evs).test = id
         THEN <<Head(evs).status>> \o DeliveredFor(Tail(evs), id)
         ELSE DeliveredFor(Tail(evs), id)

StatusesOf(attempts) == [i \in 1..Len(attempts) |-> attempts[i].status]

RunEnded == phase = "Finalized"

SummaryBuilt == phase \in {"Ending", "Finalized"} /\ pc # "-"

\* C1: after onEnd the exit code is 0 exactly when there is at least one test
\* record, the failures list is empty, no setup/teardown error was reported
\* and no attempt ended interrupted; otherwise it is 1.
C1_ExitSignal ==
    RunEnded =>
        /\ exitCode \in {0, 1}
        /\ (exitCode = 0) <=>
              /\ Len(testRecords) > 0
              /\ ProcessTestResults(testRecords).failures = <<>>
              /\ ~ \E i \in 1..Len(events) : events[i].type = "error"
              /\ ~ \E i \in 1..Len(events) : events[i].status = "interrupted"

\* a run of two events that ended with exit code 0
C1_Witness ==
    RunEnded /\ exitCode = 0 /\ Len(events) = MaxEvents

\* The exit code as a function of the runner events alone: 1 when no
\* attempt-end event was delivered, when an error event or an interrupted
\* attempt was delivered, or when the last attempt delivered under some title
\* failed or timed out; 0 otherwise.
ExitOfEvents(evs) ==
    LET ends    == {i \in 1..Len(evs) : evs[i].type = "testEnd"}
        titleOf(i) == TestOf(evs[i].test).title
        lastOf(i)  == \A j \in ends : titleOf(j) = titleOf(i) => j <= i
    IN IF ends = {} THEN 1
       ELSE IF \/ \E i \in 1..Len(evs) : evs[i].type = "error"
               \/ \E i \in ends : evs[i].status = "interrupted"
               \/ \E i \in ends : lastOf(i) /\ IsFailedStatus(evs[i].status)
            THEN 1 ELSE 0

\* C2: the exit code is a function of the delivered runner events only,
\* whatever the channel toggles are and however the collaborator calls end.
C2_ExitDependsOnEventsOnly ==
    RunEnded => exitCode = ExitOfEvents(events)

\* a finished run whose bug tracker lookup and database lookup were made and
\* did not yield a provider, with failures and every channel enabled
C2_Witness ==
    /\ RunEnded
    /\ \A t \in Toggles : config[t]
    /\ {"BugFiling", "DBPublish", "Notification"} \subseteq Range(ran)
    /\ "bugTracker" \notin providers
    /\ "database" \notin providers
    /\ exitCode = 1

\* C3: a channel that fails does not keep a later enabled channel from
\* running: at the end of a run with tests, DBPublish has run when
\* publishToDB is set and Notification has run when sendEmail is set, also
\* when the bug tracker threw.
C3_LaterChannelsStillRun ==
    (RunEnded /\ Len(testRecords) > 0) =>
        /\ config["publishToDB"] => "DBPublish" \in Range(ran)
        /\ config["sendEmail"] => "Notification" \in Range(ran)
        /\ pc = "done"

\* BugFiling ran and its provider lookup threw; DBPublish and Notification ran
C3_Witness ==
    /\ RunEnded
    /\ "BugFiling" \in Range(ran)
    /\ "bugTracker" \notin providers
    /\ "DBPublish" \in Range(ran)
    /\ "Notification" \in Range(ran)

\* C4: a run that ends without any test record exits with code 1 and runs no
\* stage: no provider is resolved, no request is made, nothing is written.
C4_NoTestsNoPipeline ==
    (RunEnded /\ Len(testRecords) = 0) =>
        /\ exitCode = 1
        /\ ran = <<>>
        /\ trace = <<>>
        /\ providers = {}

\* a run without tests that ended, with every channel enabled
C4_Witness ==
    /\ RunEnded
    /\ testRecords = <<>>
    /\ \A t \in Toggles : config[t]

\* C5: for every test, the record found for it holds exactly the attempts
\* delivered for that test, in delivery order (so retryCount = N - 1).
C5_AttemptsPerIdentity ==
    \A t \in Tests :
        LET delivered == DeliveredFor(events, t.id)
            i == RecordIndex(testRecords, RecordKey(t))
        IN delivered # <<>> =>
              /\ i # 0
              /\ StatusesOf(testRecords[i].attempts) = delivered
              /\ Len(testRecords[i].attempts) - 1 = Len(delivered) - 1

\* C6: tests with different (suite, title) pairs have different records: the
\* store has one record per test for which an attempt-end was delivered.
C6_KeyedBySuiteAndTitle ==
    /\ Len(testRecords) =
          Cardinality({t \in Tests : DeliveredFor(events, t.id) # <<>>})
    /\ \A t1, t2 \in Tests :
          (/\ t1 # t2
           /\ DeliveredFor(events, t1.id) # <<>>
           /\ DeliveredFor(events, t2.id) # <<>>)
          => RecordIndex(testRecords, RecordKey(t1))
               # RecordIndex(testRecords, RecordKey(t2))

\* C7: in every summary passedCount + failedCount + skippedCount = testCount.
C7_CountsAddUp ==
    SummaryBuilt =>
        summary.passedCount + summary.failedCount + summary.skippedCount
            = summary.testCount

\* a summary of a store in which the final attempt of a record is interrupted
C7_Witness ==
    /\ SummaryBuilt
    /\ \E i \in 1..Len(testRecords) : FinalStatus(testRecords[i]) = "interrupted"
    /\ \E i \in 1..Len(testRecords) : FinalStatus(testRecords[i]) = "passed"

FinalIn(S) == Cardinality({i \in 1..Len(testRecords) : FinalStatus(testRecords[i]) \in S})

\* C8 as stated: failedCount is the number of records whose final attempt is
\* failed or timedOut (the length of failures), passedCount the number of
\* those that passed, skippedCount the number of those skipped.
C8_CountsByFinalStatus_Original ==
    SummaryBuilt =>
        /\ summary.failedCount = FinalIn({"failed", "timedOut"})
        /\ summary.failedCount = Len(summary.failures)
        /\ summary.passedCount = FinalIn({"passed"})
        /\ summary.skippedCount = FinalIn({"skipped"})

\* C8 amended: failedCount is the number of records whose final attempt is
\* neither passed nor skipped (failed, timedOut or interrupted); failures has
\* one entry per record whose final attempt is failed or timedOut; passedCount
\* and skippedCount count the records whose final attempt passed, was skipped.
C8_CountsByFinalStatus ==
    SummaryBuilt =>
        /\ summary.failedCount = FinalIn({"failed", "timedOut", "interrupted"})
        /\ Len(summary.failures) = FinalIn({"failed", "timedOut"})
        /\ summary.passedCount = FinalIn({"passed"})
        /\ summary.skippedCount = FinalIn({"skipped"})

\* a summary of one record that failed and one that was interrupted
C8_Witness ==
    /\ SummaryBuilt
    /\ FinalIn({"interrupted"}) = 1
    /\ FinalIn({"failed", "timedOut"}) = 1
    /\ summary.failedCount = 2

\* C9: at the end of the run the failures the reporter recorded hold exactly
\* one failure for each record whose final attempt is failed or timedOut and
\* none for any other record.
C9_OneFailurePerFailedRecord ==
    RunEnded =>
        \A i \in 1..Len(testRecords) :
            Cardinality({k \in 1..Len(fileFailures) :
                            fileFailures[k].testTitle = testRecords[i].key})
              = IF IsFailedStatus(FinalStatus(testRecords[i])) THEN 1 ELSE 0

ChannelRank(stage) ==
    CASE stage = "FixSuggestion" -> 1
      [] stage = "PRAutomation"  -> 1
      [] stage = "BugFiling"     -> 2
      [] stage = "DBPublish"     -> 3
      [] stage = "Notification"  -> 4
      [] OTHER                   -> 0

ChannelsRan == SelectSeq(ran, LAMBDA st : st \in Channels)

ToggleOf(ch) ==
    CASE ch = "FixSuggestion" -> "generateFix"
      [] ch = "PRAutomation"  -> "generatePR"
      [] ch = "BugFiling"     -> "createBug"
      [] ch = "DBPublish"     -> "publishToDB"
      [] OTHER                -> "sendEmail"

ProviderOf(ch) ==
    CASE ch = "FixSuggestion" -> "ai"
      [] ch = "PRAutomation"  -> "pr"
      [] ch = "BugFiling"     -> "bugTracker"
      [] ch = "DBPublish"     -> "database"
      [] OTHER                -> "notification"

\* the entries of the running stage's history that belong to channel ch
EntriesOf(ch) == SelectSeq(trace, LAMBDA e : e.ch = ch)

\* the requests `op` of the running stage's history
RequestsOf(op) == SelectSeq(trace, LAMBDA e : e.op = op)

\* C11: a channel whose toggle is false does nothing, at any time of the run:
\* its stage is never started, its provider is never resolved, and it makes no
\* request and writes no file (with publishToDB false no database provider is
\* created and initialize, which loads the SQLite module, is never called).
C11_DisabledChannelDoesNothing ==
    \A ch \in Channels \cup {"PRAutomation"} :
        ~config[ToggleOf(ch)] =>
            /\ ch \notin Range(ran)
            /\ ProviderOf(ch) \notin providers
            /\ EntriesOf(ch) = <<>>

\* a finished run with failures in which fixes were generated and bugs were
\* filed while pull requests, database and e-mail were switched off
C11_Witness ==
    /\ RunEnded
    /\ pc = "done"
    /\ Len(Failures) > 0
    /\ config["generateFix"] /\ config["createBug"]
    /\ ~config["generatePR"] /\ ~config["publishToDB"] /\ ~config["sendEmail"]
    /\ {"ai", "bugTracker"} \subseteq providers

\* C12: a request to the pull request provider for a failure (provider
\* lookup, createBranch, commitChanges, createPullRequest) is made only with
\* generatePR set and after the AI call for that failure returned a
\* suggestion: never after the AI provider lookup or generateCompletion
\* threw for that failure.
C12_PullRequestOnlyAfterFix ==
    \A k \in 1..Len(trace) :
        trace[k].ch = "PRAutomation" =>
            /\ config["generatePR"]
            /\ \E j \in 1..(k - 1) :
                  /\ trace[j].op = "generateCompletion"
                  /\ trace[j].item = trace[k].item
                  /\ trace[j].res = "ok"
            /\ ~ \E j \in 1..(k - 1) :
                  /\ trace[j].op \in {"getAIProvider", "generateCompletion"}
                  /\ trace[j].item = trace[k].item
                  /\ trace[j].res = "throw"

LastStage == IF ran = <<>> THEN "-" ELSE ran[Len(ran)]

\* the stage has returned, or has thrown out of onEnd
StageOver(stage) == LastStage = stage /\ pc \in {"stage_end", "rejected"}

ItemsOf(entries) == [i \in 1..Len(entries) |-> entries[i].item]

TestIdsOf(failures) == [i \in 1..Len(failures) |-> failures[i].testId]

FailuresWithFile == SelectSeq(Failures, LAMBDA f : f.testFile # NoFile)

\* C13: when the FixSuggestion loop is over, every failure with a known test
\* file has been begun, once and in the order of failures, whatever threw
\* for the failures before it (the read of the source, the AI provider, a
\* pull request step); and the loop always returns to onEnd.
C13_FixLoopGoesOn ==
    StageOver("FixSuggestion") =>
        /\ ItemsOf(RequestsOf("begin")) = TestIdsOf(FailuresWithFile)
        /\ pc = "stage_end"

\* the loop is over for two failures with a known file: the first one was
\* given up before its prompt was written (its source could not be read), the
\* second one got its prompt, its fix and a pull request step that threw
C13_Witness ==
    /\ StageOver("FixSuggestion")
    /\ Len(FailuresWithFile) = 2
    /\ LET first  == FailuresWithFile[1].testId
           second == FailuresWithFile[2].testId
       IN /\ ~ \E k \in 1..Len(trace) :
                  trace[k].op = "writePrompt" /\ trace[k].item = first
          /\ \E k \in 1..Len(trace) :
                trace[k].op = "writePrompt" /\ trace[k].item = second
          /\ \E k \in 1..Len(trace) :
                /\ trace[k].ch = "PRAutomation"
                /\ trace[k].item = second
                /\ trace[k].res = "throw"

\* entry k of the history is the request `op`, and the entry before it is
\* the request `before` for the same failure, which ended as `res`
Follows(k, op, before, res) ==
    trace[k].op = op =>
        /\ k > 1
        /\ trace[k - 1].op = before
        /\ trace[k - 1].item = trace[k].item
        /\ trace[k - 1].res = res

\* C14: the requests of one failure's pull request are made in the order
\* createBranch, commitChanges, createPullRequest, each at most once:
\* createBranch right after the provider was resolved, commitChanges right
\* after a createBranch that returned success, createPullRequest right after
\* a commitChanges that returned a commit id.
C14_PullRequestOrder ==
    /\ \A k \in 1..Len(trace) :
          /\ Follows(k, "createBranch", "getPRProvider", "ok")
          /\ Follows(k, "commitChanges", "createBranch", "ok")
          /\ Follows(k, "createPullRequest", "commitChanges", "ok")
    /\ \A j, k \in 1..Len(trace) :
          (/\ j # k
           /\ trace[j].ch = "PRAutomation"
           /\ trace[j].op = trace[k].op) => trace[j].item # trace[k].item

\* two failures: the pull request of the first stopped at a commitChanges
\* that returned nothing, the pull request of the second was requested
C14_Witness ==
    /\ Len(RequestsOf("createBranch")) = 2
    /\ \E k \in 1..Len(trace) :
          trace[k].op = "commitChanges" /\ trace[k].res = "falsy"
    /\ Len(RequestsOf("createPullRequest")) = 1

\* C15: with generateFix false no request goes to a pull request provider and
\* none is resolved, at any time of the run, also with generatePR true.
C15_NoPullRequestWithoutFix ==
    ~config["generateFix"] =>
        /\ \A k \in 1..Len(trace) :
              trace[k].op \notin {"getPRProvider", "createBranch",
                                  "commitChanges", "createPullRequest"}
        /\ "pr" \notin providers

\* a finished run with failures, generatePR true and generateFix false
C15_Witness ==
    /\ RunEnded
    /\ pc = "done"
    /\ Len(Failures) > 0
    /\ config["generatePR"]
    /\ ~config["generateFix"]

\* C16: every createPullRequest request asks for a draft.
C16_PullRequestsAreDrafts ==
    \A k \in 1..Len(trace) :
        trace[k].op = "createPullRequest" => trace[k].arg = TRUE

\* a pull request was requested and the provider returned it
C16_Witness ==
    \E k \in 1..Len(trace) :
        trace[k].op = "createPullRequest" /\ trace[k].res = "ok"

\* C17: when BugFiling is over and its bug tracker was resolved, createBug
\* has been requested exactly once for each failure, in the order of
\* failures (a failure without test file included), however the requests
\* for the failures before it ended; no request is left out as a duplicate.
C17_OneBugRequestPerFailure ==
    (StageOver("BugFiling") /\ "bugTracker" \in providers) =>
        /\ ItemsOf(RequestsOf("createBug")) = TestIdsOf(Failures)
        /\ pc = "stage_end"

\* BugFiling is over for two failures, one of them without test file: the
\* first createBug threw, the second returned nothing
C17_Witness ==
    /\ StageOver("BugFiling")
    /\ Len(Failures) = 2
    /\ \E i \in 1..2 : Failures[i].testFile = NoFile
    /\ Len(RequestsOf("createBug")) = 2
    /\ RequestsOf("createBug")[1].res = "throw"
    /\ RequestsOf("createBug")[2].res = "falsy"

\* _publishToDatabase has returned, with a configured provider and without
\* an exception
PublishCompleted ==
    /\ StageOver("DBPublish")
    /\ pc = "stage_end"
    /\ RequestsOf("getDatabaseProvider") # <<>>
    /\ \A k \in 1..Len(trace) : trace[k].res # "throw"

\* C18: a DBPublish that completed without error has saved exactly one run
\* row and after it exactly one result row for each test record, in the
\* order of the records and whatever their final status, each with the run
\* id that saveTestRun returned.
C18_OneRunRowThenOneRowPerRecord ==
    PublishCompleted =>
        LET runs == RequestsOf("saveTestRun")
            rows == RequestsOf("saveTestResult")
        IN /\ Len(runs) = 1
           /\ runs[1].arg \in RunIds
           /\ Len(rows) = Len(testRecords)
           /\ \A i \in 1..Len(rows) :
                 /\ rows[i].item = testRecords[i].test.testId
                 /\ rows[i].arg.testRunId = runs[1].arg
           /\ trace = <<Lookup("DBPublish", "getDatabaseProvider", "-", "ok"),
                        Call("DBPublish", "initialize", "-", "-", "ok"),
                        runs[1]>> \o rows

\* a completed DBPublish of a passed and a failed record under run id 2
C18_Witness ==
    /\ PublishCompleted
    /\ Len(testRecords) = 2
    /\ FinalIn({"passed"}) = 1
    /\ FinalIn({"failed"}) = 1
    /\ testRunId = 2

\* C19: when saveTestRun threw, no result row is requested, saveTestRun is
\* not requested again, and _publishToDatabase returns to onEnd, which goes
\* on with the next stage.
C19_RunRowFailureAborts ==
    (/\ LastStage = "DBPublish"
     /\ \E k \in 1..Len(trace) :
           trace[k].op = "saveTestRun" /\ trace[k].res = "throw") =>
        /\ RequestsOf("saveTestResult") = <<>>
        /\ Len(RequestsOf("saveTestRun")) = 1
        /\ trace[Len(trace)].op = "saveTestRun"
        /\ pc = "stage_end"

\* saveTestRun threw in a run with two test records
C19_Witness ==
    /\ LastStage = "DBPublish"
    /\ Len(testRecords) = 2
    /\ \E k \in 1..Len(trace) :
          trace[k].op = "saveTestRun" /\ trace[k].res = "throw"
    /\ config["sendEmail"]

\* the recipient list of the running Notification has been read
RecipientsRead == RequestsOf("recipients") # <<>>

Recipients == RequestsOf("recipients")[1].arg

\* C20 as stated: Notification sends nothing when the recipient list is
\* empty; with a non-empty recipient list it sends exactly one RunSummary
\* notification, and a Failures notification if and only if failures is
\* non-empty.
C20_Notification_Original ==
    (StageOver("Notification") /\ RecipientsRead) =>
        LET summaries == RequestsOf("sendTestSummary")
            details   == RequestsOf("sendTestFailures")
        IN IF Recipients = <<>>
           THEN summaries = <<>> /\ details = <<>>
           ELSE /\ Len(summaries) = 1
                /\ Len(details) <= 1
                /\ Len(details) = 1 <=> Len(Failures) > 0

\* C20 amended: Notification sends nothing when no recipient list was read
\* (no provider configured or resolved) or the list is empty; with a
\* non-empty list it requests exactly one RunSummary notification, and
\* exactly one Failures notification when failures is non-empty and the
\* RunSummary request did not throw, none otherwise.
C20_Notification ==
    StageOver("Notification") =>
        LET summaries == RequestsOf("sendTestSummary")
            details   == RequestsOf("sendTestFailures")
        IN /\ pc = "stage_end"
           /\ Len(RequestsOf("recipients")) <= 1
           /\ IF ~RecipientsRead \/ Recipients = <<>>
              THEN summaries = <<>> /\ details = <<>>
              ELSE /\ Len(summaries) = 1
                   /\ Len(details) =
                         IF Len(Failures) > 0 /\ summaries[1].res # "throw"
                         THEN 1 ELSE 0

\* Notification is over in a run with failures and recipients: the RunSummary
\* request threw and no Failures notification was requested
C20_Witness ==
    /\ StageOver("Notification")
    /\ RecipientsRead
    /\ Len(Recipients) = 2
    /\ Len(Failures) > 0
    /\ RequestsOf("sendTestSummary")[1].res = "throw"
    /\ RequestsOf("sendTestFailures") = <<>>
\* ------------------------------------------------------------------------
\* C21: the severity of the RunSummary notification
\* ------------------------------------------------------------------------
SummaryRequested == RequestsOf("sendTestSummary") # <<>>

SummarySeverity == RequestsOf("sendTestSummary")[1].arg

\* more than 20% of the records end skipped
ManySkipped == 5 * CountFinal(testRecords, "skipped") > Len(testRecords)

\* C21 as stated: the severity of the RunSummary notification is Error if
\* the failures list is non-empty, otherwise Warning if more than 20% of the
\* tests are skipped, otherwise Info.
C21_Severity_Original ==
    SummaryRequested =>
        SummarySeverity =
            IF Failures # <<>> THEN "Error"
            ELSE IF ManySkipped THEN "Warning"
            ELSE "Info"

\* C21 (amended): the severity of the RunSummary notification is Error if
\* some record ends neither passed nor skipped (failed, timedOut or
\* interrupted), otherwise Warning if more than 20% of the records end
\* skipped, otherwise Info.
C21_Severity ==
    SummaryRequested =>
        SummarySeverity =
            IF \E i \in 1..Len(testRecords) :
                   FinalStatus(testRecords[i]) \notin {"passed", "skipped"}
            THEN "Error"
            ELSE IF ManySkipped THEN "Warning"
            ELSE "Info"

\* a RunSummary notification of severity Error for a run without failures,
\* whose only record ends interrupted
C21_Witness ==
    /\ SummaryRequested
    /\ SummarySeverity = "Error"
    /\ Failures = <<>>
    /\ Len(testRecords) = 1
    /\ FinalStatus(testRecords[1]) = "interrupted"

\* ------------------------------------------------------------------------
\* C23: an interrupted attempt makes the run fail
\* ------------------------------------------------------------------------
InterruptedDelivered ==
    \E k \in 1..Len(events) :
        events[k].type = "testEnd" /\ events[k].status = "interrupted"

\* C23: once an attempt-end event with status interrupted is delivered,
\* hasInterruptedTests is true and stays true, and the exit code onEnd sets
\* is 1, whatever the later attempts of that test are.
C23_InterruptedRunFails ==
    InterruptedDelivered =>
        /\ hasInterruptedTests
        /\ RunEnded => exitCode = 1

\* a run that failed although its only test passed on retry after an
\* interrupted attempt, with no failure and no other error
C23_Witness ==
    /\ RunEnded
    /\ exitCode = 1
    /\ events = << [type |-> "testEnd", test |-> "id1", status |-> "interrupted"],
                   [type |-> "testEnd", test |-> "id1", status |-> "passed"] >>
    /\ Failures = <<>>
    /\ nonTestErrors = <<>>
    /\ pc = "done"

\* ------------------------------------------------------------------------
\* C24: what the events other than attempt-end change
\* ------------------------------------------------------------------------
\* the fields of the reporter, without the position inside onEnd
reporterState ==
    <<phase, config, testRecords, fileFailures, nonTestErrors,
      hasInterruptedTests, outputDir, exitCode, summary, providers,
      testRunId>>

\* the step delivers an event of that type
Delivers(type) ==
    /\ events' # events
    /\ events' = Append(events, events'[Len(events')])
    /\ events'[Len(events')].type = type

\* C24: a step that changes the test records delivers an attempt-end event;
\* an attempt-begin or step event changes no field of the reporter; a
\* non-test error appends one entry to nonTestErrors and leaves every test
\* record and every other field as it was.
C24_OnlyAttemptEndMutatesStore ==
    [][ /\ testRecords' # testRecords => Delivers("testEnd")
        /\ (Delivers("testBegin") \/ Delivers("stepBegin") \/ Delivers("stepEnd"))
               => UNCHANGED reporterState
        /\ Delivers("error") =>
               /\ Len(nonTestErrors') = Len(nonTestErrors) + 1
               /\ SubSeq(nonTestErrors', 1, Len(nonTestErrors)) = nonTestErrors
               /\ UNCHANGED <<phase, config, testRecords, fileFailures,
                              hasInterruptedTests, outputDir, exitCode,
                              summary, providers, testRunId>>
      ]_vars

\* an attempt-begin event and a non-test error were delivered: there is no
\* test record, and the one error is kept
C24_Witness ==
    /\ Len(events) = 2
    /\ events[1].type = "testBegin"
    /\ events[2].type = "error"
    /\ testRecords = <<>>
    /\ fileFailures = <<>>
    /\ Len(nonTestErrors) = 1
    /\ phase = "Collecting"

\* ------------------------------------------------------------------------
\* C25: the run only moves forward
\* ------------------------------------------------------------------------
\* The phases in their order: before onBegin, between onBegin and onEnd,
\* inside onEnd (the summary is built by onEnd's first step, the stages
\* publish it), after onEnd.
PhaseRank(p) ==
    CASE p = "Idle"       -> 0
      [] p = "Collecting" -> 1
      [] p = "Ending"     -> 2
      [] OTHER            -> 3

\* a request of the current stage has thrown
StageFailed == \E k \in 1..Len(trace) : trace[k].res = "throw"

\* C25: no step takes the run to an earlier phase; once the summary is
\* built it is never computed again, whatever fails while it is published;
\* and every stage onEnd starts comes later in program order than the
\* stages it started before.
C25_ForwardOnly ==
    [][ /\ PhaseRank(phase') >= PhaseRank(phase)
        /\ SummaryBuilt => summary' = summary
        /\ ran' # ran =>
              /\ Len(ran') = Len(ran) + 1
              /\ SubSeq(ran', 1, Len(ran)) = ran
              /\ ran # <<>> => StagePos(ran'[Len(ran')]) > StagePos(LastStage)
      ]_vars

\* the notification channel has failed after the bug filing and the
\* database channel ran, and onEnd goes on with the summary it built
C25_Witness ==
    /\ StageOver("Notification")
    /\ StageFailed
    /\ pc = "stage_end"
    /\ phase = "Ending"
    /\ "BugFiling" \in Range(ran)
    /\ "DBPublish" \in Range(ran)
    /\ summary = SummaryOf(testRecords)

\* ------------------------------------------------------------------------
\* C28: when the two documents are written
\* ------------------------------------------------------------------------
Started(stage) == stage \in Range(ran)

\* the stage was started and its method has returned
Completed(stage) ==
    Started(stage) /\ (LastStage = stage => pc \in {"stage_end", "done"})

\* every channel of the set that onEnd runs has returned
ChannelsOver(chs) ==
    \A ch \in chs : StageEnabled(ch, config, summary) => Completed(ch)

\* C28 as stated: the summary JSON and the last-run-status file are written
\* only after every enabled channel, DBPublish and Notification included,
\* has completed.
C28_FilesAfterPipeline_Original ==
    /\ Completed("Summary") => ChannelsOver(Channels)
    /\ Completed("LastRun") => ChannelsOver(Channels)

\* C28 (amended): the last-run-status file is written only after every
\* enabled channel has completed; the summary JSON is written after
\* FixSuggestion and BugFiling have completed and before DBPublish and
\* Notification start.
C28_FilesAfterPipeline ==
    /\ Completed("LastRun") => ChannelsOver(Channels) /\ Completed("Summary")
    /\ Completed("Summary") => ChannelsOver({"FixSuggestion", "BugFiling"})
    /\ \A ch \in {"DBPublish", "Notification"} :
          Started(ch) => Completed("Summary")

\* a run with all channels: the summary was written between BugFiling and
\* DBPublish, the last-run-status file after Notification
C28_Witness ==
    /\ ran = <<"FixSuggestion", "BugFiling", "Summary", "DBPublish",
               "Notification", "LastRun">>
    /\ pc = "stage_end"
    /\ RequestsOf("writeLastRun") # <<>>

\* ------------------------------------------------------------------------
\* C26, C27: a channel whose provider is not configured
\* ------------------------------------------------------------------------
\* the requests a channel sends to its collaborator
CollaboratorOps ==
    {"createBranch", "commitChanges", "createPullRequest", "createBug",
     "initialize", "saveTestRun", "saveTestResult", "sendTestSummary",
     "sendTestFailures"}

\* entry k is a lookup that found no configuration for its provider
ConfigMissing(k) ==
    /\ trace[k].op \in LookupOps
    /\ trace[k].res = "throw"
    /\ trace[k].arg = ConfigNotFound(trace[k].op)

\* entry k is the return of a channel whose environment names no provider
EnvMissing(k) == k = 1 /\ trace[k].op = "hint"

\* entries k and j belong to the same channel and the same item
SameWork(k, j) ==
    trace[j].ch = trace[k].ch /\ trace[j].item = trace[k].item

\* C26: when the configuration of a channel's provider is missing, the
\* channel requests no operation of its collaborator (for that failure, in
\* the per-failure pull request automation), writes a log entry, and no
\* exception leaves it: a channel of onEnd has returned and onEnd goes on
\* with its next stage, the fix loop goes on with its next failure.
C26_MissingConfigSkipsChannel ==
    \A k \in 1..Len(trace) :
        (ConfigMissing(k) \/ EnvMissing(k)) =>
            /\ \A j \in 1..Len(trace) :
                  SameWork(k, j) => trace[j].op \notin CollaboratorOps
            /\ \E j \in k..Len(trace) :
                  SameWork(k, j) /\ trace[j].op \in {"logError", "hint"}
            /\ pc # "rejected"
            /\ trace[k].ch # "PRAutomation" => pc = "stage_end"

\* the bug tracker has no configuration: BugFiling has logged the error and
\* returned without a createBug request
C26_Witness ==
    /\ StageOver("BugFiling")
    /\ pc = "stage_end"
    /\ Len(trace) = 2
    /\ ConfigMissing(1)
    /\ trace[2].op = "logError"
    /\ Len(Failures) > 0

\* C27: whenever a channel is skipped or fails because the configuration of
\* its provider is missing, the console output of the channel contains the
\* hint that tells the user to configure that provider.
C27_MissingConfigPrintsHint ==
    \A k \in 1..Len(trace) :
        ConfigMissing(k) =>
            \E j \in k..Len(trace) : SameWork(k, j) /\ trace[j].op = "hint"

\* ------------------------------------------------------------------------
\* C22: the store after onEnd
\* ------------------------------------------------------------------------
RECURSIVE TotalAttempts(_)
TotalAttempts(records) ==
    IF records = <<>> THEN 0
    ELSE Len(Head(records).attempts) + TotalAttempts(Tail(records))

\* the attempt-end events delivered before onEnd returned
EndedInTime == SelectSeq(events, LAMBDA e : e.type = "testEnd")

\* C22: after onEnd the store is frozen: the attempts in the store are those
\* of the attempt-end events delivered before onEnd returned; an attempt-end
\* event delivered later is rejected and adds neither a record nor an
\* attempt.
C22_StoreFrozenAfterEnd ==
    TotalAttempts(testRecords) = Len(EndedInTime)

\* ------------------------------------------------------------------------
\* C29: where the files are written
\* ------------------------------------------------------------------------
FileWrites == {"writeSummary", "writeLastRun", "writePrompt", "writeFix"}

\* C29: every file the reporter writes (summary JSON, last-run-status file,
\* prompt and fix files) lies under the outputDir of the config.
C29_FilesUnderOutputDir ==
    \A k \in 1..Len(trace) :
        trace[k].op \in FileWrites =>
            IsUnder(trace[k].arg, config["outputDir"])

\* ------------------------------------------------------------------------
\* C30: the failure classifier
\* ------------------------------------------------------------------------
Classified == probe.fn = "categorizeError" /\ probe.out # "-"

Has(keywords) == keywords \cap WordsOf(probe.arg) # {}

LastRunWritten == RequestsOf("lastRunData") # <<>>

LastRunDocument == RequestsOf("lastRunData")[1].arg

\* C36: the status of the last-run-status document is 'failed' exactly when
\* the exit signal of the run is failure (there are failures, a non-test
\* error was reported or an attempt was interrupted), and 'passed' exactly
\* when it is success.
C36_LastRunStatusIsExitSignal ==
    LastRunWritten =>
        (LastRunDocument.status = "failed"
            <=> (Failures # <<>> \/ nonTestErrors # <<>> \/ hasInterruptedTests))

\* C37: the failedTests list of the last-run-status document holds exactly
\* the test ids of the run's failures, the records whose final attempt is
\* failed or timedOut.
C37_FailedTestsAreTheFailures ==
    LastRunWritten => LastRunDocument.failedTests = TestIdsOf(Failures)

\* ------------------------------------------------------------------------
\* C38: the status of a result row
\* ------------------------------------------------------------------------
RecordOfTest(id) ==
    testRecords[CHOOSE i \in 1..Len(testRecords) : testRecords[i].test.testId = id]

\* C38: each result row that DBPublish saves carries the status of the last
\* attempt of its record: a record that ends passed, failed or skipped is
\* saved with that status, also when an earlier attempt ended otherwise.
C38_RowHasFinalStatus ==
    \A k \in 1..Len(trace) :
        (/\ trace[k].op = "saveTestResult"
         /\ FinalStatus(RecordOfTest(trace[k].item))
                \in {"passed", "failed", "skipped"}) =>
            trace[k].arg.status = FinalStatus(RecordOfTest(trace[k].item))

\* ------------------------------------------------------------------------
\* C31: the slowest tests and the average duration
\* ------------------------------------------------------------------------
MetricsDone == probe.fn = "metrics" /\ probe.out # <<>>

\* C31: slowestTests lists min(K, number of passed tests) different passed
\* tests; it is in descending order of duration, tests of equal duration in
\* the order in which they were first encountered; every passed test left
\* out is no slower than the listed ones, and was encountered later than
\* any listed test of the same duration. The average passed duration is the
\* sum of the durations divided by their number.
C31_SlowestTests ==
    MetricsDone =>
        LET d    == probe.arg.durations
            k    == probe.arg.k
            slow == probe.out[1].slowestTests
            avg  == probe.out[1].averageTime
            Listed == {slow[i] : i \in 1..Len(slow)}
        IN  /\ Len(slow) = IF k < Len(d) THEN k ELSE Len(d)
            /\ Listed \subseteq 1..Len(d)
            /\ Cardinality(Listed) = Len(slow)
            /\ \A i, j \in 1..Len(slow) :
                  i < j => \/ d[slow[i]] > d[slow[j]]
                           \/ d[slow[i]] = d[slow[j]] /\ slow[i] < slow[j]
            /\ \A t \in (1..Len(d)) \ Listed : \A u \in Listed :
                  \/ d[t] < d[u]
                  \/ d[t] = d[u] /\ u < t
            /\ avg.num = SumOf(d)
            /\ d # <<>> => avg.den = Len(d)

\* three passed tests of 1, 2 and 3 seconds with K = 3: the slowest tests
\* are the third, the second and the first, the average is 2 seconds
C31_Witness ==
    /\ MetricsDone
    /\ probe.arg.durations = <<1, 2, 3>>
    /\ probe.arg.k = 3
    /\ probe.out[1].slowestTests = <<3, 2, 1>>
    /\ probe.out[1].averageTime.num = 2 * probe.out[1].averageTime.den

\* ------------------------------------------------------------------------
\* C35: the prompt and fix files of a failure
\* ------------------------------------------------------------------------
\* entry k is preceded by an entry of that operation for the same failure
\* that ended as res
PrecededBy(k, op, res) ==
    \E j \in 1..(k - 1) :
        /\ trace[j].op = op
        /\ trace[j].item = trace[k].item
        /\ trace[j].res = res

\* C35: for each failure the prompt file is written before the AI provider
\* is asked for (before any request to it), and a fix file is written only
\* after the AI provider has returned a suggestion for that failure.
C35_PromptThenSuggestionThenFix ==
    \A k \in 1..Len(trace) :
        /\ trace[k].op \in {"getAIProvider", "generateCompletion"} =>
              PrecededBy(k, "writePrompt", "-")
        /\ trace[k].op = "writeFix" =>
              PrecededBy(k, "generateCompletion", "ok")


C39_InitializedOnce ==
    RequestsOf("saveTestRun") # <<>> => connections = 1

\* ------------------------------------------------------------------------
\* C33: one provider instance per kind
\* ------------------------------------------------------------------------
\* C33: between two resets at most one provider instance is created per
\* kind, and the get-provider calls for one kind that have returned an
\* instance have returned the same one.
C33_OneInstancePerKind ==
    /\ \A k \in Kinds : registry.created[k] <= 1
    /\ \A c, d \in Callers :
          /\ CallOf(c).pc = "done" /\ CallOf(d).pc = "done"
          /\ CallOf(c).kind = CallOf(d).kind
          /\ CallOf(c).result # 0 /\ CallOf(d).result # 0
          => CallOf(c).result = CallOf(d).result

\* ------------------------------------------------------------------------
\* C40: open bugs with the same title
\* ------------------------------------------------------------------------
\* C40: whatever createBug calls have been made, the tracker holds at most
\* one open bug per title.
C40_OneOpenBugPerTitle ==
    \A i, j \in 1..Len(tracker.bugs) :
        /\ i # j
        /\ tracker.bugs[i].open /\ tracker.bugs[j].open
        => tracker.bugs[i].title # tracker.bugs[j].title

====
